---------------------------- MODULE Spec2Model ----------------------------
(***************************************************************************)
(* pwneddb: the gap-filling download coordinator.                          *)
(*                                                                         *)
(* Text is modelled as a sequence of one-character strings, so that        *)
(* case-folding, hexadecimal parsing, formatting and splitting are         *)
(* computed character by character, as the Python code computes them.      *)
(***************************************************************************)
EXTENDS Integers, Sequences, FiniteSets, TLC

(***************************************************************************)
(* Characters                                                              *)
(***************************************************************************)
Digits == <<"0","1","2","3","4","5","6","7","8","9">>

HexLower == Digits \o <<"a","b","c","d","e","f">>

HexUpper == Digits \o <<"A","B","C","D","E","F">>

Range(s) == { s[i] : i \in 1..Len(s) }

IndexOf(s, c) == CHOOSE i \in 1..Len(s) : s[i] = c

UpperChars == <<"A","B","C","D","E","F","X">>

LowerChars == <<"a","b","c","d","e","f","x">>

\* the lower-case form of each upper-case character of the alphabet used here
FoldTable == [ c \in Range(UpperChars) |-> LowerChars[IndexOf(UpperChars, c)] ]

\* str.casefold() on one character
CasefoldChar(c) == IF c \in DOMAIN FoldTable THEN FoldTable[c] ELSE c

\* str.casefold()
Casefold(s) == [ i \in 1..Len(s) |-> CasefoldChar(s[i]) ]

\* the code points of the characters that can occur in a stored prefix
\* OrdTable with the letters placed below the digits
OrdTableLettersFirst ==
    [ c \in Range(HexLower) \cup Range(HexUpper) |->
        IF c \in Range(Digits) THEN 147 + IndexOf(Digits, c)
        ELSE IF c \in Range(HexLower) THEN 86 + IndexOf(HexLower, c)
        ELSE 54 + IndexOf(HexUpper, c) ]

OrdTable ==
    [ c \in Range(HexLower) \cup Range(HexUpper) |->
        IF c \in Range(Digits) THEN 47 + IndexOf(Digits, c)
        ELSE IF c \in Range(HexLower) THEN 86 + IndexOf(HexLower, c)
        ELSE 54 + IndexOf(HexUpper, c) ]

Ord(c) == OrdTable[c]

\* a < b for two strings, byte by byte (the order ORDER BY uses)
RECURSIVE StrLess(_, _)
StrLess(a, b) ==
    IF b = <<>> THEN FALSE
    ELSE IF a = <<>> THEN TRUE
    ELSE IF Ord(Head(a)) # Ord(Head(b)) THEN Ord(Head(a)) < Ord(Head(b))
    ELSE StrLess(Tail(a), Tail(b))

\* str.isspace() on the characters used here
Whitespace == {" ", "\t", "\r", "\n"}

\* str.strip(): without the whitespace at both ends
Strip(s) ==
    LET keep == { i \in 1..Len(s) : s[i] \notin Whitespace }
    IN  IF keep = {} THEN <<>>
        ELSE SubSeq(s, CHOOSE i \in keep : \A j \in keep : i <= j,
                       CHOOSE i \in keep : \A j \in keep : j <= i)

\* the digits of an integer literal in base 16: hexadecimal digits, single
\* underscores between them
HexDigitsOk(s) ==
    /\ s # <<>>
    /\ \A i \in 1..Len(s) : s[i] \in Range(HexLower) \cup Range(HexUpper) \cup {"_"}
    /\ s[1] # "_" /\ s[Len(s)] # "_"
    /\ \A i \in 1..(Len(s) - 1) : ~(s[i] = "_" /\ s[i + 1] = "_")

\* int(s, 16) does not raise ValueError: whitespace around, an optional sign,
\* an optional "0x" that one underscore may follow, then the digits
IntBase16Ok(s) ==
    LET t == Strip(s)
        u == IF t # <<>> /\ t[1] \in {"+", "-"} THEN Tail(t) ELSE t
        based == Len(u) >= 2 /\ u[1] = "0" /\ u[2] \in {"x", "X"}
        v == IF based THEN SubSeq(u, 3, Len(u)) ELSE u
        w == IF based /\ v # <<>> /\ v[1] = "_" THEN Tail(v) ELSE v
    IN  HexDigitsOk(w)

\* int(s, 16) of a string of hexadecimal digits
\* the value of each hexadecimal digit, in either letter case
DigitValue ==
    [ c \in Range(HexLower) \cup Range(HexUpper) |->
        IndexOf(HexLower, CasefoldChar(c)) - 1 ]

RECURSIVE IntBase16(_)
IntBase16(s) ==
    IF s = <<>> THEN 0
    ELSE 16 * IntBase16(SubSeq(s, 1, Len(s) - 1)) + DigitValue[s[Len(s)]]

\* format(value, "x"): lower-case hexadecimal, no padding
RECURSIVE HexOf(_)
HexOf(v) ==
    IF v < 16 THEN <<HexLower[v + 1]>>
    ELSE Append(HexOf(v \div 16), HexLower[(v % 16) + 1])

\* format(value, "0>5x"): right-aligned in a field of 5, filled with "0"
PREFIX_WIDTH == 5

\* format(value, "0<5x"): left-aligned
RECURSIVE PadRight(_, _)
PadRight(s, width) == IF Len(s) >= width THEN s ELSE PadRight(s \o <<"0">>, width)

RECURSIVE PadLeft(_, _)
PadLeft(s, width) == IF Len(s) >= width THEN s ELSE PadLeft(<<"0">> \o s, width)

Format05x(v) == PadLeft(HexOf(v), PREFIX_WIDTH)


(***************************************************************************)
(* api.Prefix: the five-character hexadecimal range parameter              *)
(***************************************************************************)
MAX_VALUE == 16^5 - 1

\* Prefix.__init__ without the case folding
PrefixInitNoFold(text) ==
    LET stripped == IF Len(text) >= 2 /\ SubSeq(text, 1, 2) = <<"0","x">>
                    THEN SubSeq(text, 3, Len(text))
                    ELSE text
    IN  IF Len(stripped) # PREFIX_WIDTH
          THEN [ok |-> FALSE, error |-> "prefix must be exactly 5-characters long"]
        ELSE IF ~IntBase16Ok(stripped)
          THEN [ok |-> FALSE, error |-> "prefix must be hexadecimal string"]
        ELSE [ok |-> TRUE, prefix |-> stripped]

\* Prefix.__init__: the object with its _prefix, or the ValueError it raises
PrefixInit(text) ==
    LET folded   == Casefold(text)
        stripped == IF Len(folded) >= 2 /\ SubSeq(folded, 1, 2) = <<"0","x">>
                    THEN SubSeq(folded, 3, Len(folded))
                    ELSE folded
    IN  IF Len(stripped) # PREFIX_WIDTH
          THEN [ok |-> FALSE, error |-> "prefix must be exactly 5-characters long"]
        ELSE IF ~IntBase16Ok(stripped)
          THEN [ok |-> FALSE, error |-> "prefix must be hexadecimal string"]
        ELSE [ok |-> TRUE, prefix |-> stripped]

\* Prefix.__str__
PrefixStr(self) == self.prefix

\* Prefix.__int__
PrefixInt(self) == IntBase16(self.prefix)

\* Prefix.__eq__ between two Prefix objects
PrefixEq(self, other) == self.prefix = other.prefix

\* Prefix.from_integer: the object, or the ValueError it raises
from_integer(value) ==
    IF value < 0
      THEN [ok |-> FALSE, error |-> "value must be a positive integer"]
    ELSE IF value > MAX_VALUE
      THEN [ok |-> FALSE, error |-> "value cannot be greater than MAX_VALUE"]
    ELSE PrefixInit(Format05x(value))

(***************************************************************************)
(* PwnedPasswordsAPIv3._extract: the response parser                       *)
(***************************************************************************)
\* the k-th smallest member of a set of integers
Nth(S, k) == CHOOSE i \in S : Cardinality({ j \in S : j < i }) = k - 1

\* str.split(sep): the pieces between the separators, empty pieces kept
SplitOn(string, sep) ==
    LET seps == { i \in 1..Len(string) : string[i] = sep }
        n    == Cardinality(seps)
        Cut(k) == IF k = 0 THEN 0 ELSE IF k = n + 1 THEN Len(string) + 1 ELSE Nth(seps, k)
    IN  [ k \in 1..(n + 1) |-> SubSeq(string, Cut(k - 1) + 1, Cut(k) - 1) ]

\* the body cut at every line feed, as str.split('\n') cuts it
SplitLines(string) == SplitOn(string, "\n")

\* str.split(): the maximal runs of non-whitespace characters, in order
SplitWhitespace(string) ==
    LET n      == Len(string)
        starts == { i \in 1..n : /\ string[i] \notin Whitespace
                                 /\ (i = 1 \/ string[i - 1] \in Whitespace) }
        ends   == { i \in 1..n : /\ string[i] \notin Whitespace
                                 /\ (i = n \/ string[i + 1] \in Whitespace) }
    IN  [ k \in 1..Cardinality(starts) |->
            SubSeq(string, Nth(starts, k), Nth(ends, k)) ]

\* the digits of an int() literal: decimal digits, single underscores between them
DigitsOk(s) ==
    /\ s # <<>>
    /\ \A i \in 1..Len(s) : s[i] \in Range(Digits) \cup {"_"}
    /\ s[1] # "_" /\ s[Len(s)] # "_"
    /\ \A i \in 1..(Len(s) - 1) : ~(s[i] = "_" /\ s[i + 1] = "_")

RECURSIVE DecimalValue(_)
DecimalValue(s) ==
    IF s = <<>> THEN 0
    ELSE IF s[Len(s)] = "_" THEN DecimalValue(SubSeq(s, 1, Len(s) - 1))
    ELSE 10 * DecimalValue(SubSeq(s, 1, Len(s) - 1)) + (IndexOf(Digits, s[Len(s)]) - 1)

\* int(text): an optional sign, then the digits; ValueError otherwise
PyInt(text) ==
    LET signed == text # <<>> /\ text[1] \in {"+", "-"}
        body   == IF signed THEN Tail(text) ELSE text
    IN  IF ~DigitsOk(body) THEN [ok |-> FALSE]
        ELSE [ok |-> TRUE,
              value |-> IF signed /\ text[1] = "-"
                        THEN 0 - DecimalValue(body) ELSE DecimalValue(body)]

\* one pass of the loop body of _extract over item `number` of string.split():
\* a datum, or the RuntimeError "line {number}: {e}" with e the ValueError of
\* the tuple unpacking or of int()
\* ExtractLine without the casefold of line 139
ExtractLineAsGiven(prefix, number, line) ==
    LET parts == SplitOn(line, ":")
    IN  IF Len(parts) < 2
          THEN [ok |-> FALSE, line |-> number,
                detail |-> [error |-> "not enough values to unpack", got |-> Len(parts)]]
        ELSE IF Len(parts) > 2
          THEN [ok |-> FALSE, line |-> number,
                detail |-> [error |-> "too many values to unpack"]]
        ELSE IF ~PyInt(parts[2]).ok
          THEN [ok |-> FALSE, line |-> number,
                detail |-> [error |-> "invalid literal for int() with base 10",
                            literal |-> parts[2]]]
        ELSE [ok |-> TRUE,
              datum |-> [sha1 |-> prefix \o parts[1],
                         count |-> PyInt(parts[2]).value]]

ExtractLine(prefix, number, line) ==
    LET parts == SplitOn(line, ":")
    IN  IF Len(parts) < 2
          THEN [ok |-> FALSE, line |-> number,
                detail |-> [error |-> "not enough values to unpack", got |-> Len(parts)]]
        ELSE IF Len(parts) > 2
          THEN [ok |-> FALSE, line |-> number,
                detail |-> [error |-> "too many values to unpack"]]
        ELSE IF ~PyInt(parts[2]).ok
          THEN [ok |-> FALSE, line |-> number,
                detail |-> [error |-> "invalid literal for int() with base 10",
                            literal |-> parts[2]]]
        ELSE [ok |-> TRUE,
              datum |-> [sha1 |-> Casefold(prefix \o parts[1]),
                         count |-> PyInt(parts[2]).value]]

RECURSIVE ExtractLines(_, _, _, _)
ExtractLines(prefix, lines, number, data) ==
    IF number > Len(lines) THEN [ok |-> TRUE, data |-> data]
    ELSE LET r == ExtractLine(prefix, number, lines[number])
         IN  IF r.ok THEN ExtractLines(prefix, lines, number + 1, Append(data, r.datum))
             ELSE r

\* _extract(prefix, string): the list of (sha1, count), or the RuntimeError raised
Extract(prefix, string) ==
    ExtractLines(prefix, SplitWhitespace(string), 1, <<>>)

(***************************************************************************)
(* Response bodies the transport can return                                *)
(***************************************************************************)
CRLF == <<"\r", "\n">>

Suffix1 ==
    <<"0","0","3","C","D","2","1","5","7","3","9","D","7","C","1","B","2","2",
      "1","8","6","7","0","D","2","6","F","8","1","4","0","8","2","3","7">>

Suffix2 ==
    <<"0","0","3","D","6","8","E","B","5","5","0","6","8","C","3","3","A","C",
      "E","0","9","2","4","7","E","E","4","C","6","3","9","3","0","6","B">>

Suffix3 ==
    <<"0","1","2","C","1","9","2","B","2","F","1","6","F","8","2","E","A","0",
      "E","B","9","E","F","1","8","D","9","D","5","3","9","B","0","D","D">>

Suffix4 ==
    <<"0","1","3","3","0","C","6","8","9","E","5","D","6","4","F","6","6","0",
      "D","6","9","4","7","A","9","3","A","D","6","3","4","E","F","8","F">>

\* the four-line body of the test suite
BodyFour ==
    Suffix1 \o <<":","1">> \o CRLF \o Suffix2 \o <<":","4">> \o CRLF \o
    Suffix3 \o <<":","3">> \o CRLF \o Suffix4 \o <<":","0">> \o CRLF

\* one record, LF-terminated, with a blank line before it
BodyOne == <<"\n">> \o Suffix2 \o <<":","1","2">> \o <<"\n">>

BodyEmpty == <<>>

\* second line has no colon
BodyNoColon == Suffix1 \o <<":","1">> \o CRLF \o <<"n","o","c","o","l","o","n">> \o CRLF

\* second line has a count that is no integer
BodyBadCount == Suffix1 \o <<":","1">> \o CRLF \o Suffix2 \o <<":","1","x">> \o CRLF

\* one record whose count carries a minus sign
BodyNegative == Suffix3 \o <<":","-","7">> \o CRLF

Bodies == {BodyFour, BodyOne, BodyEmpty, BodyNoColon, BodyBadCount}

(***************************************************************************)
(* db: the tables and PrefixManager                                        *)
(***************************************************************************)
TOTAL_ROWS == 16^5

\* Python's None, where a string is expected (no prefix is the empty string)
None == <<>>

\* validate_prefix without the case folding
validate_prefix_as_given(prefix) ==
    IF Len(prefix) # PREFIX_WIDTH THEN [ok |-> FALSE]
    ELSE [ok |-> TRUE, prefix |-> prefix]

\* Prefix.validate_prefix: the value stored, or ValueError
\* validate_prefix without the length check of line 175
validate_prefix_any_length(prefix) == [ok |-> TRUE, prefix |-> Casefold(prefix)]

validate_prefix(prefix) ==
    IF Len(prefix) # PREFIX_WIDTH THEN [ok |-> FALSE]
    ELSE [ok |-> TRUE, prefix |-> Casefold(prefix)]

\* a column without its UNIQUE constraint
NeverTaken(rows, prefix) == FALSE

\* UNIQUE (prefix): an INSERT of `prefix` into `rows` violates the constraint
Taken(rows, prefix) == \E r \in rows : r.prefix = prefix

\* the integer primary key SQLite gives the next row of a table
NextId(rows) ==
    IF rows = {} THEN 1
    ELSE (CHOOSE i \in { r.id : r \in rows } : \A r \in rows : r.id <= i) + 1

\* largest_prefix ordering by the primary key: the row inserted last
largest_prefix_latest(rows) ==
    IF rows = {} THEN None
    ELSE (CHOOSE r \in rows : \A o \in rows : o.id <= r.id).prefix

\* PrefixManager.largest_prefix: ORDER BY prefix DESC, first row
\* largest_prefix ordering ascending
largest_prefix_ascending(rows) ==
    IF rows = {} THEN None
    ELSE (CHOOSE r \in rows : \A o \in rows : ~StrLess(o.prefix, r.prefix)).prefix

\* Manager.count_rows: SELECT count(*) FROM the table of the model
count_rows(rows) == Cardinality(rows)

largest_prefix(rows) ==
    IF rows = {} THEN None
    ELSE (CHOOSE r \in rows : \A o \in rows : ~StrLess(r.prefix, o.prefix)).prefix

\* find_missing starting an empty table at 1
find_missing_from_one(rows) ==
    LET largest == largest_prefix(rows)
        value   == IntBase16(largest) + 1
    IN  IF largest = None THEN <<"0","0","0","0","1">>
        ELSE IF value = TOTAL_ROWS THEN None
        ELSE Format05x(value)

\* find_missing without the increment
find_missing_no_increment(rows) ==
    LET largest == largest_prefix(rows)
        value   == IntBase16(largest)
    IN  IF largest = None THEN <<"0","0","0","0","0">>
        ELSE IF value = TOTAL_ROWS THEN None
        ELSE Format05x(value)

\* find_missing testing for the full table one value too late
find_missing_late_full(rows) ==
    LET largest == largest_prefix(rows)
        value   == IntBase16(largest) + 1
    IN  IF largest = None THEN <<"0","0","0","0","0">>
        ELSE IF value > TOTAL_ROWS THEN None
        ELSE Format05x(value)

\* find_missing looking for the least address that is not stored
find_missing_least(rows) ==
    LET stored     == { IntBase16(r.prefix) : r \in rows }
        candidates == { v \in {0} \cup { w + 1 : w \in stored } : v \notin stored }
        least      == CHOOSE v \in candidates : \A w \in candidates : v <= w
    IN  IF least = TOTAL_ROWS THEN None ELSE Format05x(least)

\* PrefixManager.find_missing
find_missing(rows) ==
    LET largest == largest_prefix(rows)
        value   == IntBase16(largest) + 1
    IN  IF largest = None THEN <<"0","0","0","0","0">>
        ELSE IF value = TOTAL_ROWS THEN None
        ELSE Format05x(value)

\* percentage_complete counting the rows
percentage_by_count(rows) ==
    [num |-> Cardinality(rows) * 100, den |-> TOTAL_ROWS]

\* percentage_complete without the increment
percentage_of_largest(rows) ==
    LET largest == largest_prefix(rows)
        n       == IF largest # None THEN IntBase16(largest) ELSE 0
    IN  [num |-> n * 100, den |-> TOTAL_ROWS]

\* PrefixManager.percentage_complete: (n / TOTAL_ROWS) * 100.0, kept as the
\* fraction num / den, which the floating-point arithmetic represents exactly
\* (n * 100 is an integer below 2^53 and TOTAL_ROWS is a power of two)
percentage_complete(rows) ==
    LET largest == largest_prefix(rows)
        n       == IF largest # None THEN IntBase16(largest) + 1 ELSE 0
    IN  [num |-> n * 100, den |-> TOTAL_ROWS]

(***************************************************************************)
(* State                                                                   *)
(***************************************************************************)
\* the operating-system processes that can run the program on one database
Procs == {1, 2}

\* the one process of a sequential run
Solo == {1}

VARIABLES
    prefixes,         \* table prefixes, committed rows [id, prefix]
    passwords,        \* table passwords, committed rows [id, sha1, count, prefix_id]
    writer,           \* the process holding SQLite's write lock, 0 when free
    txn,              \* per process: rows inserted by its session, not yet committed
    pc,               \* per process: position inside Updatinator.create_new
    missing,          \* per process: local `missing` of create_new
    body,             \* per process: local `string` of fetch_range
    hashes,           \* per process: local `hashes` of create_new
    result,           \* per process: what the last create_new returned or raised
    num_requests,     \* per process: PwnedPasswordsAPIv3.num_requests
    bytes_received,   \* per process: PwnedPasswordsAPIv3.bytes_received
    elapsed,          \* per process: seconds the pending request has waited
    rpc,              \* per process: position inside CommandLine.run
    total_prefixes,   \* per process: CommandLine.total_prefixes
    total_passwords,  \* per process: CommandLine.total_passwords
    closed,           \* per process: session.close() was called
    summary,          \* per process: the summary printed by run, if any
    signalled,        \* history: per process, a SIGINT or SIGTERM was delivered
    lost,             \* history: per process, the prefix its killed predecessor was
                      \* working on, kept until the process issues a request
    snap,             \* history: per process, the tables when its caller's call began
    parsed,           \* history: prefix -> the records committed with its row
    created,          \* history: the prefixes successful create_new calls returned
    arg,              \* a direct call of a library function: its name and argument
    ret               \* what that call returned or raised

vars ==
    <<prefixes, passwords, writer, txn, pc, missing, body, hashes, result,
      num_requests, bytes_received, elapsed, rpc, total_prefixes,
      total_passwords, closed, summary, signalled, lost, snap, parsed, created,
      arg, ret>>

storeVars == <<prefixes, passwords, parsed, created>>

lockVars == <<writer, txn>>

apiVars == <<num_requests, bytes_received, elapsed>>

totalVars == <<total_prefixes, total_passwords>>

runVars == <<rpc, totalVars, closed, summary, signalled, snap>>

callVars == <<arg, ret>>

(***************************************************************************)
(* Bounds                                                                  *)
(***************************************************************************)
\* PwnedPasswordsAPIv3.timeout, in seconds
timeout == 5

\* rows of table prefixes beyond which no new cycle is started
MaxRows == 3

\* seconds a pending request is followed
MaxElapsed == 6

\* requests one Updatinator driven directly by a caller may issue
MaxRequests == 4

NoTxn == [prefixes |-> {}, passwords |-> {}]

NoResult == [kind |-> "none"]

NoSummary == [printed |-> FALSE]

NoCall == [fn |-> "none"]

InitStore ==
    /\ prefixes = {}
    /\ passwords = {}
    /\ writer = 0
    /\ txn = [p \in Procs |-> NoTxn]
    /\ parsed = [x \in {} |-> <<>>]
    /\ created = <<>>

InitUpdatinator ==
    /\ pc = [p \in Procs |-> "idle"]
    /\ missing = [p \in Procs |-> None]
    /\ body = [p \in Procs |-> <<>>]
    /\ hashes = [p \in Procs |-> <<>>]
    /\ result = [p \in Procs |-> NoResult]
    /\ num_requests = [p \in Procs |-> 0]
    /\ bytes_received = [p \in Procs |-> 0]
    /\ elapsed = [p \in Procs |-> 0]
    /\ snap = [p \in Procs |-> NoTxn]

InitCommandLine(position) ==
    /\ rpc = [p \in Procs |-> position]
    /\ total_prefixes = [p \in Procs |-> 0]
    /\ total_passwords = [p \in Procs |-> 0]
    /\ closed = [p \in Procs |-> FALSE]
    /\ summary = [p \in Procs |-> NoSummary]
    /\ signalled = [p \in Procs |-> FALSE]
    /\ lost = [p \in Procs |-> None]

\* no library function is called directly
InitNoCall ==
    /\ arg = NoCall
    /\ ret = NoCall

(***************************************************************************)
(* Updatinator.create_new, step by step                                    *)
(***************************************************************************)
\* the frame of create_new is left: the caller holds `outcome`, the locals
\* `string` and `hashes` are gone
Leave(p, outcome) ==
    /\ pc' = [pc EXCEPT ![p] = "done"]
    /\ result' = [result EXCEPT ![p] = outcome]
    /\ body' = [body EXCEPT ![p] = <<>>]
    /\ hashes' = [hashes EXCEPT ![p] = <<>>]
    /\ elapsed' = [elapsed EXCEPT ![p] = 0]

\* create_new raises
Raise(p, kind, detail) == Leave(p, [kind |-> kind, detail |-> detail])

\* lines 39-43: find_missing(), and RuntimeError when nothing is missing
FindMissing(p) ==
    /\ pc[p] = "find"
    /\ LET m == find_missing(prefixes)
       IN  IF m = None
             THEN /\ Raise(p, "exhausted", "No missing prefixes found")
                  /\ UNCHANGED missing
             ELSE /\ missing' = [missing EXCEPT ![p] = m]
                  /\ pc' = [pc EXCEPT ![p] = "get"]
                  /\ UNCHANGED <<result, body, hashes, elapsed>>
    /\ UNCHANGED <<storeVars, lockVars, num_requests, bytes_received, runVars, lost>>
    /\ UNCHANGED callVars

\* fetch_range and _get up to session.get(url): Prefix(prefix) validates the
\* string (ValueError), then the request is counted and sent
Get(p) ==
    /\ pc[p] = "get"
    /\ IF PrefixInit(missing[p]).ok
         THEN /\ num_requests' = [num_requests EXCEPT ![p] = @ + 1]
              /\ pc' = [pc EXCEPT ![p] = "wait"]
              /\ UNCHANGED <<body, hashes, result, elapsed>>
         ELSE /\ Raise(p, "value", PrefixInit(missing[p]).error)
              /\ UNCHANGED num_requests
    /\ lost' = [lost EXCEPT ![p] = None]
    /\ UNCHANGED <<storeVars, lockVars, missing, bytes_received, runVars>>
    /\ UNCHANGED callVars

\* session.get(url) is given no timeout: while the transport is silent the
\* call stays blocked, however long
Tick(p) ==
    /\ pc[p] = "wait"
    /\ elapsed[p] < MaxElapsed
    /\ elapsed' = [elapsed EXCEPT ![p] = @ + 1]
    /\ UNCHANGED <<storeVars, lockVars, pc, missing, body, hashes, result,
                   num_requests, bytes_received, runVars, lost>>
    /\ UNCHANGED callVars

\* the transport answers 2xx with body b: raise_for_status passes, the bytes
\* are counted, response.text is returned
RespondOk(p, b) ==
    /\ pc[p] = "wait"
    /\ bytes_received' = [bytes_received EXCEPT ![p] = @ + Len(b)]
    /\ body' = [body EXCEPT ![p] = b]
    /\ elapsed' = [elapsed EXCEPT ![p] = 0]
    /\ pc' = [pc EXCEPT ![p] = "extract"]
    /\ UNCHANGED <<storeVars, lockVars, missing, hashes, result, num_requests,
                   runVars, lost>>
    /\ UNCHANGED callVars

\* RespondError with a retry inside _get: the request is sent again
RespondErrorRetry(p) ==
    /\ pc[p] = "wait"
    /\ pc' = [pc EXCEPT ![p] = "get"]
    /\ UNCHANGED <<result, body, hashes, elapsed>>
    /\ UNCHANGED <<storeVars, lockVars, missing, num_requests, bytes_received,
                   runVars, lost>>
    /\ UNCHANGED callVars

\* the connection fails, or the status is not 2xx and raise_for_status raises
RespondError(p) ==
    /\ pc[p] = "wait"
    /\ Raise(p, "transport", "requests.RequestException")
    /\ UNCHANGED <<storeVars, lockVars, missing, num_requests, bytes_received,
                   runVars, lost>>
    /\ UNCHANGED callVars

\* ExtractStep with the prefix row committed before the body is parsed
ExtractStepPartial(p) ==
    /\ pc[p] = "extract"
    /\ LET r == Extract(PrefixInit(missing[p]).prefix, body[p])
       IN  IF r.ok
             THEN /\ hashes' = [hashes EXCEPT ![p] = r.data]
                  /\ pc' = [pc EXCEPT ![p] = "flush_prefix"]
                  /\ UNCHANGED <<result, body, elapsed, prefixes>>
             ELSE /\ Raise(p, "parse", [line |-> r.line, detail |-> r.detail])
                  /\ prefixes' = prefixes \cup
                                   {[id |-> NextId(prefixes), prefix |-> missing[p]]}
    /\ UNCHANGED <<passwords, parsed, created, lockVars, missing, num_requests,
                   bytes_received, runVars, lost>>
    /\ UNCHANGED callVars

\* _extract(prefix, string), then the Password objects are built
ExtractStep(p) ==
    /\ pc[p] = "extract"
    /\ LET r == Extract(PrefixInit(missing[p]).prefix, body[p])
       IN  IF r.ok
             THEN /\ hashes' = [hashes EXCEPT ![p] = r.data]
                  /\ pc' = [pc EXCEPT ![p] = "flush_prefix"]
                  /\ UNCHANGED <<result, body, elapsed>>
             ELSE Raise(p, "parse", [line |-> r.line, detail |-> r.detail])
    /\ UNCHANGED <<storeVars, lockVars, missing, num_requests, bytes_received,
                   runVars, lost>>
    /\ UNCHANGED callVars

\* OnInsert with every statement committed at once
OnInsertAutocommit(committed, rows) == committed \cup rows

\* the committed rows of a table after an INSERT of `rows` by session.commit():
\* the INSERT runs inside the transaction of the commit, so they are unchanged
OnInsert(committed, rows) == committed

\* Manager.add, the flush of session.commit(): INSERT INTO prefixes inside a
\* write transaction; UNIQUE (prefix) makes it fail with IntegrityError
FlushPrefix(p) ==
    /\ pc[p] = "flush_prefix"
    /\ writer = 0
    /\ LET v == validate_prefix(missing[p])
       IN  IF Taken(prefixes, v.prefix)
             THEN /\ Raise(p, "integrity", "UNIQUE constraint failed: prefixes.prefix")
                  /\ UNCHANGED <<lockVars, prefixes>>
             ELSE LET row == [id |-> NextId(prefixes), prefix |-> v.prefix]
                  IN  /\ txn' = [txn EXCEPT ![p].prefixes = {row}]
                      /\ prefixes' = OnInsert(prefixes, {row})
                      /\ writer' = p
                      /\ pc' = [pc EXCEPT ![p] = "flush_passwords"]
                      /\ UNCHANGED <<result, body, hashes, elapsed>>
    /\ UNCHANGED <<passwords, parsed, created, missing, num_requests,
                   bytes_received, runVars, lost>>
    /\ UNCHANGED callVars

\* the flush goes on: INSERT INTO passwords, one row per Password, in order
FlushPasswords(p) ==
    /\ pc[p] = "flush_passwords"
    /\ LET bucket == CHOOSE r \in txn[p].prefixes : TRUE
           first  == NextId(passwords)
           rows   == { [id |-> first + i - 1, sha1 |-> hashes[p][i].sha1,
                        count |-> hashes[p][i].count, prefix_id |-> bucket.id]
                       : i \in 1..Len(hashes[p]) }
       IN  /\ txn' = [txn EXCEPT ![p].passwords = rows]
           /\ passwords' = OnInsert(passwords, rows)
    /\ pc' = [pc EXCEPT ![p] = "commit"]
    /\ UNCHANGED <<prefixes, parsed, created, writer, missing, body, hashes, result,
                   apiVars, runVars, lost>>
    /\ UNCHANGED callVars

\* COMMIT that loses the pending rows
CommittedNothing(committed, pending) == committed

\* what COMMIT makes of a table: the pending rows become committed rows
Committed(committed, pending) == committed \cup pending

\* COMMIT, then create_new returns (missing, len(passwords))
Commit(p) ==
    /\ pc[p] = "commit"
    /\ prefixes' = Committed(prefixes, txn[p].prefixes)
    /\ passwords' = Committed(passwords, txn[p].passwords)
    /\ txn' = [txn EXCEPT ![p] = NoTxn]
    /\ writer' = 0
    /\ parsed' = [x \in DOMAIN parsed \cup {missing[p]} |->
                    IF x = missing[p] THEN hashes[p] ELSE parsed[x]]
    /\ created' = Append(created, missing[p])
    /\ Leave(p, [kind |-> "ok", prefix |-> missing[p], count |-> Len(hashes[p])])
    /\ UNCHANGED <<missing, num_requests, bytes_received, runVars, lost>>
    /\ UNCHANGED callVars

\* the steps of one create_new call
CreateNewStep(p) ==
    \/ FindMissing(p)
    \/ Get(p)
    \/ Tick(p)
    \/ \E b \in Bodies : RespondOk(p, b)
    \/ RespondError(p)
    \/ ExtractStep(p)
    \/ FlushPrefix(p)
    \/ FlushPasswords(p)
    \/ Commit(p)

(***************************************************************************)
(* A caller that drives one Updatinator directly, as the test suite does   *)
(***************************************************************************)
Call(p) ==
    /\ rpc[p] = "none"
    /\ pc[p] \in {"idle", "done"}
    /\ result[p].kind # "integrity"
    /\ Cardinality(prefixes) < MaxRows
    /\ num_requests[p] < MaxRequests
    /\ pc' = [pc EXCEPT ![p] = "find"]
    /\ snap' = [snap EXCEPT ![p] = [prefixes |-> prefixes, passwords |-> passwords]]
    /\ UNCHANGED <<storeVars, lockVars, missing, body, hashes, result, apiVars,
                   rpc, totalVars, closed, summary, signalled, lost>>
    /\ UNCHANGED callVars

InitNew == InitStore /\ InitUpdatinator /\ InitCommandLine("none") /\ InitNoCall

NextNew ==
    \E p \in Solo : Call(p) \/ CreateNewStep(p) \/ RespondOk(p, BodyNegative)

\* one Updatinator on an empty database, called again and again
SpecNew == InitNew /\ [][NextNew]_vars

(***************************************************************************)
(* Two Updatinators, each with its own session, on one database            *)
(***************************************************************************)
\* the bodies the transport answers with here
BodiesTwo == {BodyOne, BodyEmpty}

NextTwo ==
    \E p \in Procs :
      \/ Call(p)
      \/ FindMissing(p)
      \/ Get(p)
      \/ \E b \in BodiesTwo : RespondOk(p, b)
      \/ ExtractStep(p)
      \/ FlushPrefix(p)
      \/ FlushPasswords(p)
      \/ Commit(p)

\* two coordinators whose steps interleave freely
SpecTwo == InitNew /\ [][NextTwo]_vars

(***************************************************************************)
(* CommandLine.run, the signal handlers of __main__, and the process       *)
(***************************************************************************)
\* line 102-105: the first prefix is looked up and announced
RunBegin(p) ==
    /\ rpc[p] = "begin"
    /\ rpc' = [rpc EXCEPT ![p] = "loop"]
    /\ UNCHANGED <<storeVars, lockVars, pc, missing, body, hashes, result, apiVars,
                   totalVars, closed, summary, signalled, lost, snap>>
    /\ UNCHANGED callVars

\* line 107-109: the try block is entered and CommandLine.create_new calls
\* Updatinator.create_new
RunEnter(p) ==
    /\ rpc[p] = "loop"
    /\ rpc' = [rpc EXCEPT ![p] = "call"]
    /\ pc' = [pc EXCEPT ![p] = "find"]
    /\ UNCHANGED <<storeVars, lockVars, missing, body, hashes, result, apiVars,
                   totalVars, closed, summary, signalled, lost, snap>>
    /\ UNCHANGED callVars

\* RunEnter while the table has fewer than MaxRows rows
RunCall(p) == Cardinality(prefixes) < MaxRows /\ RunEnter(p)

\* CommandLine.create_new after the call returned: the totals, the progress
\* line, and back to the head of the loop
RunTally(p) ==
    /\ rpc[p] = "call"
    /\ pc[p] = "done"
    /\ result[p].kind = "ok"
    /\ total_prefixes' = [total_prefixes EXCEPT ![p] = @ + 1]
    /\ total_passwords' = [total_passwords EXCEPT ![p] = @ + result[p].count]
    /\ pc' = [pc EXCEPT ![p] = "idle"]
    /\ rpc' = [rpc EXCEPT ![p] = "loop"]
    /\ UNCHANGED <<storeVars, lockVars, missing, body, hashes, result, apiVars,
                   closed, summary, signalled, lost, snap>>
    /\ UNCHANGED callVars

\* the call raised something that is no SystemExit: `except SystemExit` does
\* not match, the exception leaves run
RunPropagate(p) ==
    /\ rpc[p] = "call"
    /\ pc[p] = "done"
    /\ result[p].kind # "ok"
    /\ pc' = [pc EXCEPT ![p] = "idle"]
    /\ rpc' = [rpc EXCEPT ![p] = "raised"]
    /\ UNCHANGED <<storeVars, lockVars, missing, body, hashes, result, apiVars,
                   totalVars, closed, summary, signalled, lost, snap>>
    /\ UNCHANGED callVars

\* where run is when a SystemExit raised now is caught by its try block
InTry(position) == position = "call"

\* positions at which run is executing
Running == {"begin", "loop", "call", "except", "summary"}

\* sigint_handler / sigterm_handler: SystemExit is raised wherever the main
\* thread is, and unwinds create_new if it is running; inside the try block
\* the handler of run catches it, elsewhere it leaves run
Signal(p) ==
    /\ rpc[p] \in Running
    /\ signalled' = [signalled EXCEPT ![p] = TRUE]
    /\ rpc' = [rpc EXCEPT ![p] = IF InTry(rpc[p]) THEN "except" ELSE "exited"]
    /\ pc' = [pc EXCEPT ![p] = "idle"]
    /\ result' = [result EXCEPT ![p] =
                    IF InTry(rpc[p]) THEN [kind |-> "SystemExit"] ELSE @]
    /\ body' = [body EXCEPT ![p] = <<>>]
    /\ hashes' = [hashes EXCEPT ![p] = <<>>]
    /\ elapsed' = [elapsed EXCEPT ![p] = 0]
    /\ UNCHANGED <<storeVars, lockVars, missing, num_requests, bytes_received,
                   totalVars, closed, summary, lost, snap>>
    /\ UNCHANGED callVars

\* line 110-115: session.close() rolls back what was not committed, the
\* message is logged and printed, break
RunExcept(p) ==
    /\ rpc[p] = "except"
    /\ closed' = [closed EXCEPT ![p] = TRUE]
    /\ txn' = [txn EXCEPT ![p] = NoTxn]
    /\ writer' = IF writer = p THEN 0 ELSE writer
    /\ rpc' = [rpc EXCEPT ![p] = "summary"]
    /\ UNCHANGED <<storeVars, pc, missing, body, hashes, result, apiVars,
                   totalVars, summary, signalled, lost, snap>>
    /\ UNCHANGED callVars

\* line 117-126: the summary, return 0
RunSummary(p) ==
    /\ rpc[p] = "summary"
    /\ summary' = [summary EXCEPT ![p] =
                     [printed |-> TRUE, prefixes |-> total_prefixes[p],
                      passwords |-> total_passwords[p]]]
    /\ rpc' = [rpc EXCEPT ![p] = "returned"]
    /\ UNCHANGED <<storeVars, lockVars, pc, missing, body, hashes, result, apiVars,
                   totalVars, closed, signalled, lost, snap>>
    /\ UNCHANGED callVars

\* a process without memory, at `position`: what CommandLine.__init__ sets up
Fresh(p, position) ==
    /\ rpc' = [rpc EXCEPT ![p] = position]
    /\ pc' = [pc EXCEPT ![p] = "idle"]
    /\ missing' = [missing EXCEPT ![p] = None]
    /\ body' = [body EXCEPT ![p] = <<>>]
    /\ hashes' = [hashes EXCEPT ![p] = <<>>]
    /\ result' = [result EXCEPT ![p] = NoResult]
    /\ num_requests' = [num_requests EXCEPT ![p] = 0]
    /\ bytes_received' = [bytes_received EXCEPT ![p] = 0]
    /\ elapsed' = [elapsed EXCEPT ![p] = 0]
    /\ total_prefixes' = [total_prefixes EXCEPT ![p] = 0]
    /\ total_passwords' = [total_passwords EXCEPT ![p] = 0]
    /\ closed' = [closed EXCEPT ![p] = FALSE]
    /\ summary' = [summary EXCEPT ![p] = NoSummary]
    /\ signalled' = [signalled EXCEPT ![p] = FALSE]
    /\ snap' = [snap EXCEPT ![p] = NoTxn]

\* the process is killed (SIGKILL, power loss): its memory is gone, SQLite
\* discards its uncommitted transaction
Kill(p) ==
    /\ rpc[p] \in Running
    /\ Fresh(p, "dead")
    /\ txn' = [txn EXCEPT ![p] = NoTxn]
    /\ writer' = IF writer = p THEN 0 ELSE writer
    /\ lost' = [lost EXCEPT ![p] =
                  IF pc[p] \in {"idle", "find", "done"} THEN None ELSE missing[p]]
    /\ UNCHANGED storeVars
    /\ UNCHANGED callVars

\* the program is started again on the same database: CommandLine.__init__
\* makes a new session, a new Updatinator and zeroed totals, and run begins
Start(p) ==
    /\ rpc[p] \in {"returned", "raised", "exited", "dead"}
    /\ Fresh(p, "begin")
    /\ lost' = [lost EXCEPT ![p] = IF rpc[p] = "dead" THEN @ ELSE None]
    /\ UNCHANGED <<storeVars, lockVars>>
    /\ UNCHANGED callVars

(***************************************************************************)
(* Another writer of the same database                                     *)
(***************************************************************************)
\* the prefixes another writer may try to add
SeedInputs ==
    { <<"f","f","f","f","e">>, <<"F","F","F","F","F">>, <<"0","0","0","B","1">>,
      <<"a","b","c","d">> }

\* PrefixManager.add(Prefix(prefix=x)) by another writer, in one transaction:
\* ValueError from validate_prefix, IntegrityError from UNIQUE, or one new row
Seed(x) ==
    /\ writer = 0
    /\ Cardinality(prefixes) < MaxRows
    /\ LET v == validate_prefix(x)
       IN  IF ~v.ok \/ Taken(prefixes, v.prefix)
             THEN UNCHANGED <<prefixes, parsed>>
             ELSE /\ prefixes' = Committed(prefixes,
                                   {[id |-> NextId(prefixes), prefix |-> v.prefix]})
                  /\ parsed' = [y \in DOMAIN parsed \cup {v.prefix} |->
                                  IF y = v.prefix THEN <<>> ELSE parsed[y]]
    /\ UNCHANGED <<passwords, created, lockVars, pc, missing, body, hashes, result,
                   apiVars, runVars, lost>>
    /\ UNCHANGED callVars

Init == InitStore /\ InitUpdatinator /\ InitCommandLine("begin") /\ InitNoCall

Next ==
    \/ \E p \in Solo :
         \/ RunBegin(p)
         \/ RunCall(p)
         \/ CreateNewStep(p)
         \/ RunTally(p)
         \/ RunPropagate(p)
         \/ Signal(p)
         \/ RunExcept(p)
         \/ RunSummary(p)
         \/ Kill(p)
         \/ Start(p)
    \/ \E x \in SeedInputs : Seed(x)

\* the program run, interrupted, killed and restarted on one database that
\* another writer may also add to
Spec == Init /\ [][Next]_vars

(***************************************************************************)
(* One run of the program on a new database, signals included              *)
(***************************************************************************)
NextRun ==
    \E p \in Solo :
      \/ RunBegin(p)
      \/ RunCall(p)
      \/ FindMissing(p)
      \/ Get(p)
      \/ \E b \in BodiesTwo : RespondOk(p, b)
      \/ RespondError(p)
      \/ ExtractStep(p)
      \/ FlushPrefix(p)
      \/ FlushPasswords(p)
      \/ Commit(p)
      \/ RunTally(p)
      \/ RunPropagate(p)
      \/ Signal(p)
      \/ RunExcept(p)
      \/ RunSummary(p)

\* CommandLine.run from its first line to its end, once
SpecRun == Init /\ [][NextRun]_vars

(***************************************************************************)
(* One run of the program to the end of the address space                  *)
(***************************************************************************)
\* addresses still missing, at most, when the run begins
MaxRemaining == 3

\* the table holds 00000 .. k-1 with TOTAL_ROWS - MaxRemaining <= k <= TOTAL_ROWS.
\* Only the row of k-1 is kept: find_missing reads the greatest prefix alone
\* and UNIQUE compares equal prefixes alone, so the rows below it act in no
\* step. Its id is k, the id the k-th insert was given.
InitResume ==
    /\ \E k \in (TOTAL_ROWS - MaxRemaining)..TOTAL_ROWS :
         /\ prefixes = {[id |-> k, prefix |-> Format05x(k - 1)]}
         /\ parsed = [x \in {Format05x(k - 1)} |-> <<>>]
    /\ passwords = {}
    /\ writer = 0
    /\ txn = [p \in Procs |-> NoTxn]
    /\ created = <<>>
    /\ InitUpdatinator /\ InitCommandLine("begin") /\ InitNoCall

\* every fetch is answered and every body parses
NextResume ==
    \E p \in Solo :
      \/ RunBegin(p)
      \/ RunEnter(p)
      \/ FindMissing(p)
      \/ Get(p)
      \/ \E b \in BodiesTwo : RespondOk(p, b)
      \/ ExtractStep(p)
      \/ FlushPrefix(p)
      \/ FlushPasswords(p)
      \/ Commit(p)
      \/ RunTally(p)
      \/ RunPropagate(p)

\* the steps of the run other than the parse
ResumeStep(p) ==
    \/ RunBegin(p)
    \/ RunEnter(p)
    \/ FindMissing(p)
    \/ Get(p)
    \/ \E b \in BodiesTwo : RespondOk(p, b)
    \/ FlushPrefix(p)
    \/ FlushPasswords(p)
    \/ Commit(p)
    \/ RunTally(p)
    \/ RunPropagate(p)

\* weak fairness of ExtractStep(p) with its enabling condition written out:
\* the step can be taken exactly when pc[p] = "extract", and it changes pc[p]
ExtractFair(p) == []<>(pc[p] # "extract") \/ []<><<ExtractStep(p)>>_vars

\* the loop of run is not bounded here. The process is one thread that the
\* interpreter keeps running: a step that can be taken is taken.
SpecResume ==
    /\ InitResume
    /\ [][NextResume]_vars
    /\ \A p \in Solo : WF_vars(ResumeStep(p)) /\ ExtractFair(p)

(***************************************************************************)
(* One Updatinator on a database another writer adds to between its calls  *)
(***************************************************************************)
NextGaps ==
    \/ \E p \in Solo :
         \/ Call(p)
         \/ FindMissing(p)
         \/ Get(p)
         \/ \E b \in BodiesTwo : RespondOk(p, b)
         \/ ExtractStep(p)
         \/ FlushPrefix(p)
         \/ FlushPasswords(p)
         \/ Commit(p)
    \/ \E x \in SeedInputs : (\A p \in Solo : pc[p] \in {"idle", "done"}) /\ Seed(x)

\* create_new called again and again on a table that can have gaps
SpecGaps == InitNew /\ [][NextGaps]_vars

(***************************************************************************)
(* PrefixManager.add called directly, as the unit tests of db call it      *)
(***************************************************************************)
\* the prefixes handed to db.Prefix(prefix=...)
AddInputs ==
    { <<"a","b","c","d","e">>, <<"A","B","C","D","E">>, <<"A","b","C","d","E">>,
      <<"a","b","0","0","1">>, <<"a","B","0","0","1">>, <<"0","0","0","0","0">>,
      <<"f","f","f","f","f">>, <<"F","F","F","F","F">>,
      <<"0","0","0","0","9">>, <<"0","0","0","0","A">>,
      <<"a","b","c","d","e","f">>, <<"a","b","c","d">> }

\* manager.add(Prefix(prefix=x)): ValueError from validate_prefix when the
\* object is built, IntegrityError from UNIQUE (prefix) at the flush, or one
\* new committed row
Add(x) ==
    /\ rpc[1] = "none"
    /\ writer = 0
    /\ Cardinality(prefixes) < MaxRows
    /\ arg' = [fn |-> "add", prefix |-> x]
    /\ LET v == validate_prefix(x)
       IN  IF ~v.ok
             THEN /\ ret' = [fn |-> "add", raised |-> "ValueError"]
                  /\ UNCHANGED <<prefixes, parsed>>
           ELSE IF Taken(prefixes, v.prefix)
             THEN /\ ret' = [fn |-> "add", raised |-> "IntegrityError"]
                  /\ UNCHANGED <<prefixes, parsed>>
           ELSE /\ ret' = [fn |-> "add", raised |-> "nothing"]
                /\ prefixes' = Committed(prefixes,
                                  {[id |-> NextId(prefixes), prefix |-> v.prefix]})
                /\ parsed' = [y \in DOMAIN parsed \cup {v.prefix} |->
                                IF y = v.prefix THEN <<>> ELSE parsed[y]]
    /\ UNCHANGED <<passwords, created, lockVars, pc, missing, body, hashes, result,
                   apiVars, runVars, lost>>

NextStore == \E x \in AddInputs : Add(x)

\* prefixes added one after the other to an empty database
SpecStore == InitNew /\ [][NextStore]_vars

(***************************************************************************)
(* Library functions called directly, as the unit tests call them          *)
(***************************************************************************)
\* lines a response body is made of in these calls
LineGood == <<"A","B",":","1">>

LineBlank == <<>>

LineNoColon == <<"A","B">>

LineBadCount == <<"A","B",":","x">>

LineNegative == <<"A","B",":","-","1">>

LineTwoColons == <<"A",":","1",":","2">>

LineSpaced == <<"A"," ","B",":","1">>

LineKinds ==
    {LineGood, LineBlank, LineNoColon, LineBadCount, LineNegative, LineTwoColons,
     LineSpaced}

\* lines of a body beyond which none is generated
MaxLines == 3

\* the body whose lines are `lines`, each ended by a line feed
RECURSIVE JoinLines(_)
JoinLines(lines) ==
    IF lines = <<>> THEN <<>>
    ELSE Head(lines) \o <<"\n">> \o JoinLines(Tail(lines))

ExtractInputs ==
    UNION { { JoinLines(f) : f \in [1..n -> LineKinds] } : n \in 0..MaxLines }
    \cup {BodyFour, BodyOne}

\* the prefix the unit tests of _extract use
PREFIX == <<"5","b","a","a","6">>

\* characters a text handed to Prefix() is made of in these calls
TextChars == {"0", "F", "x", "+"}

\* characters of such a text, after its optional "0x", beyond which none is generated
MaxCore == 5

TextLeads == { <<>>, <<"0","x">>, <<"0","X">> }

PrefixInputs ==
    UNION { { lead \o core : core \in [1..n -> TextChars] } :
            lead \in TextLeads, n \in 0..MaxCore }

\* integers handed to from_integer lie within IntSpan of 0, of a power of 16
\* or of MAX_VALUE
IntSpan == 8

IntInputs ==
    UNION { (c - IntSpan)..(c + IntSpan) : c \in {0, 16, 256, 4096, 65536, MAX_VALUE} }

\* texts that two Prefix objects are compared from
EqInputs ==
    { <<"d","e","c","a","f">>, <<"D","E","C","A","F">>, <<"d","e","C","A","f">>,
      <<"0","x","d","e","c","a","f">>, <<"0","X","D","E","C","A","F">>,
      <<"d","e","c","a","e">>, <<"0","0","0","0","0">>, <<"0","x","0","0","0","0","0">>,
      <<"1","e","2","4","0">>, <<"1","E","2","4","0">>, <<"0","1","e","2","4">> }

LibInputs ==
    { [fn |-> "_extract", string |-> b] : b \in ExtractInputs }
    \cup { [fn |-> "Prefix", text |-> t] : t \in PrefixInputs }
    \cup { [fn |-> "from_integer", value |-> v] : v \in IntInputs }
    \cup { [fn |-> "__eq__", first |-> a, second |-> b] : a, b \in EqInputs }

\* what a direct call leaves alone
libFrame ==
    <<storeVars, lockVars, pc, missing, body, hashes, result, apiVars, runVars,
      lost, arg>>

\* PwnedPasswordsAPIv3()._extract(Prefix('5baa6'), string)
CallExtract ==
    /\ arg.fn = "_extract"
    /\ ret = NoCall
    /\ ret' = [fn |-> "_extract", value |-> Extract(PrefixInit(PREFIX).prefix, arg.string)]
    /\ UNCHANGED libFrame

\* Prefix(text)
CallPrefix ==
    /\ arg.fn = "Prefix"
    /\ ret = NoCall
    /\ ret' = [fn |-> "Prefix", value |-> PrefixInit(arg.text)]
    /\ UNCHANGED libFrame

\* Prefix.from_integer(value), then int() and str() of the object
CallFromInteger ==
    /\ arg.fn = "from_integer"
    /\ ret = NoCall
    /\ LET made == from_integer(arg.value)
       IN  ret' = IF made.ok
                    THEN [fn |-> "from_integer", value |-> made,
                          int |-> PrefixInt(made), str |-> PrefixStr(made)]
                    ELSE [fn |-> "from_integer", value |-> made]
    /\ UNCHANGED libFrame

\* Prefix(first) == Prefix(second)
CallEq ==
    /\ arg.fn = "__eq__"
    /\ ret = NoCall
    /\ ret' = [fn |-> "__eq__",
               first |-> PrefixStr(PrefixInit(arg.first)),
               second |-> PrefixStr(PrefixInit(arg.second)),
               value |-> PrefixEq(PrefixInit(arg.first), PrefixInit(arg.second))]
    /\ UNCHANGED libFrame

InitLib ==
    /\ InitStore /\ InitUpdatinator /\ InitCommandLine("none")
    /\ arg \in LibInputs
    /\ ret = NoCall

NextLib == CallExtract \/ CallPrefix \/ CallFromInteger \/ CallEq

\* one direct call of one library function with one argument
SpecLib == InitLib /\ [][NextLib]_vars

(***************************************************************************)
(* utils.duration: the elapsed time of the summary, in words               *)
(***************************************************************************)
\* YEAR = int(60 * 60 * 24 * 365.2425), the mean Gregorian year in seconds
YEAR == 60 * 60 * 24 * 365 + (60 * 60 * 24 * 2425) \div 10000

\* the dict DURATIONS, in the order its keys are written and iterated
DURATIONS ==
    << [key |-> <<"y","e","a","r">>, length |-> YEAR],
       [key |-> <<"m","o","n","t","h">>, length |-> YEAR \div 12],
       [key |-> <<"w","e","e","k">>, length |-> 60 * 60 * 24 * 7],
       [key |-> <<"d","a","y">>, length |-> 60 * 60 * 24],
       [key |-> <<"h","o","u","r">>, length |-> 60 * 60],
       [key |-> <<"m","i","n","u","t","e">>, length |-> 60],
       [key |-> <<"s","e","c","o","n","d">>, length |-> 1] >>

\* int() of a finite float or Decimal num/den: the fraction is cut off,
\* towards zero
Truncate(num, den) == IF num >= 0 THEN num \div den ELSE 0 - ((0 - num) \div den)

\* int(seconds): an int is itself, a float or Decimal is truncated (nan
\* raises ValueError, infinity OverflowError), a str is parsed as an integer
\* literal with surrounding whitespace ignored, None raises TypeError
ToInt(seconds) ==
    IF seconds.type = "int" THEN [ok |-> TRUE, value |-> seconds.value]
    ELSE IF seconds.type \in {"float", "Decimal"}
      THEN IF "special" \in DOMAIN seconds
             THEN [ok |-> FALSE,
                   raised |-> IF seconds.special = "nan" THEN "ValueError"
                              ELSE "OverflowError"]
             ELSE [ok |-> TRUE, value |-> Truncate(seconds.num, seconds.den)]
    ELSE IF seconds.type = "str"
      THEN IF PyInt(Strip(seconds.text)).ok
             THEN [ok |-> TRUE, value |-> PyInt(Strip(seconds.text)).value]
             ELSE [ok |-> FALSE, raised |-> "ValueError"]
    ELSE [ok |-> FALSE, raised |-> "TypeError"]

RECURSIVE DecimalOf(_)
\* the decimal digits of a non-negative integer
DecimalOf(n) ==
    IF n < 10 THEN <<Digits[n + 1]>>
    ELSE Append(DecimalOf(n \div 10), Digits[(n % 10) + 1])

RECURSIVE FormatComma(_)
\* format(n, ','): the decimal digits in groups of three
FormatComma(n) ==
    IF n < 1000 THEN DecimalOf(n)
    ELSE FormatComma(n \div 1000) \o <<",">> \o PadLeft(DecimalOf(n % 1000), 3)

\* duration(seconds)
duration(seconds) ==
    LET conv == ToInt(seconds)
    IN  IF ~conv.ok
          THEN IF conv.raised \in {"TypeError", "ValueError"}
                 THEN [raised |-> "ValueError",
                       message |-> "Number of seconds expected", given |-> seconds]
                 ELSE [raised |-> conv.raised]
        ELSE IF conv.value < 0
          THEN [raised |-> "ValueError",
                message |-> "Positive number expected", given |-> conv.value]
        ELSE LET hits == { i \in 1..Len(DURATIONS) :
                             conv.value \div DURATIONS[i].length > 1 }
             IN  IF hits # {}
                   THEN LET first == CHOOSE i \in hits : \A j \in hits : i <= j
                        IN  [raised |-> "nothing",
                             text |-> FormatComma(conv.value \div DURATIONS[first].length)
                                      \o <<" ">> \o DURATIONS[first].key \o <<"s">>]
                 ELSE IF conv.value = 1
                   THEN [raised |-> "nothing",
                         text |-> <<"1"," ","s","e","c","o","n","d">>]
                 ELSE [raised |-> "nothing",
                       text |-> FormatComma(conv.value)
                                \o <<" ","s","e","c","o","n","d","s">>]

\* how far around each mark the numbers of seconds are taken
SecSpan == 2

\* the numbers of seconds of the test suite, one and two of every unit, and
\* sixty years
SecondMarks ==
    LET day == 60 * 60 * 24  hour == 60 * 60  minute == 60
    IN  {0, 42, 119, 245, 60 * YEAR}
        \cup { DURATIONS[i].length : i \in 1..Len(DURATIONS) }
        \cup { 2 * DURATIONS[i].length : i \in 1..Len(DURATIONS) }
        \cup { 3000 * day, 731 * day, 730 * day, 200 * day, 61 * day, 60 * day,
               30 * day, 14 * day, 13 * day, 48 * hour, 47 * hour,
               120 * minute, 119 * minute, 13 * minute }

\* the arguments handed to duration: ints, negative ones too, floats and a
\* Decimal with and without a fraction, nan and infinity, strings, None
DurationInputs ==
    { [type |-> "int", value |-> v] :
        v \in {-245} \cup UNION { (c - SecSpan)..(c + SecSpan) : c \in SecondMarks } }
    \cup { [type |-> "float", num |-> n, den |-> 10] : n \in {-15, -10, -9, -5, 0, 5, 19, 422} }
    \cup { [type |-> "Decimal", num |-> 420, den |-> 10] }
    \cup { [type |-> "float", special |-> x] : x \in {"nan", "inf"} }
    \cup { [type |-> "str", text |-> t] :
             t \in { <<"b","a","n","a","n","a">>, <<"4","2">>, <<" ","7"," ">>,
                     <<"-","3">>, <<"1","e","3">> } }
    \cup { [type |-> "NoneType"] }

\* duration(seconds)
CallDuration ==
    /\ arg.fn = "duration"
    /\ ret = NoCall
    /\ ret' = [fn |-> "duration", value |-> duration(arg.seconds)]
    /\ UNCHANGED libFrame

InitUtil ==
    /\ InitStore /\ InitUpdatinator /\ InitCommandLine("none")
    /\ arg \in { [fn |-> "duration", seconds |-> s] : s \in DurationInputs }
    /\ ret = NoCall

NextUtil == CallDuration

\* one direct call of duration with one argument
SpecUtil == InitUtil /\ [][NextUtil]_vars

(***************************************************************************)
(* Properties                                                              *)
(***************************************************************************)
\* the canonical form of a prefix: five lower-case hexadecimal digits
IsCanonical(s) == Len(s) = 5 /\ \A i \in 1..5 : s[i] \in Range(HexLower)

\* the integer values of the stored prefixes
StoredValues == { IntBase16(r.prefix) : r \in prefixes }

\* the greatest member of a non-empty set of integers
Greatest(S) == CHOOSE n \in S : \A m \in S : m <= n

\* the rows of table passwords that belong to the prefix row `id`
RecordsOf(id) == { x \in passwords : x.prefix_id = id }

\* the records of prefix row r are exactly `data`, in that order
BucketIs(r, data) ==
    LET rows == RecordsOf(r.id)
    IN  /\ Cardinality(rows) = Len(data)
        /\ \A i \in 1..Len(data) :
             \E x \in rows : /\ x.sha1 = data[i].sha1
                             /\ x.count = data[i].count
                             /\ Cardinality({ y \in rows : y.id < x.id }) = i - 1

\* the step of process p that is the find_missing call of create_new
IsFindMissing(p) == pc[p] = "find" /\ pc'[p] \in {"get", "done"}

\* C1: from an empty store, with k the number of create_new calls that
\* succeeded, the stored prefixes are exactly 00000 .. k-1, each once, in
\* canonical form, inserted in increasing numeric order.
C1_NoGapsNoDuplicates ==
    LET k == Len(created)
    IN  /\ Cardinality(prefixes) = k
        /\ \A r \in prefixes : IsCanonical(r.prefix)
        /\ StoredValues = 0..(k - 1)
        /\ \A i \in 1..k : IntBase16(created[i]) = i - 1
        /\ \A r \in prefixes : IntBase16(r.prefix) = r.id - 1

\* two calls succeeded and the last call failed in the parser
C1_Witness ==
    /\ Len(created) >= 2
    /\ pc[1] = "done"
    /\ result[1].kind = "parse"

\* C2: in every state the committed tables hold, for each prefix row, exactly
\* the records parsed for it, and no record without its prefix row; nothing a
\* session has inserted but not committed is in the committed tables.
C2_NeverPartial ==
    /\ \A r \in prefixes : /\ r.prefix \in DOMAIN parsed
                           /\ BucketIs(r, parsed[r.prefix])
    /\ \A x \in passwords : \E r \in prefixes : r.id = x.prefix_id
    /\ \A p \in Procs : /\ txn[p].prefixes \cap prefixes = {}
                        /\ txn[p].passwords \cap passwords = {}

\* a signal interrupted the call between the INSERTs and COMMIT
C2_Witness ==
    /\ rpc[1] = "except"
    /\ txn[1].prefixes # {}
    /\ txn[1].passwords # {}

\* C3: the first address a process fetches is the canonical prefix whose value
\* is one more than the greatest committed prefix, or 00000 on an empty table,
\* whatever the process before it was doing when it was killed.
C3_ResumesFromStore ==
    [][\A p \in Procs :
         (IsFindMissing(p) /\ pc'[p] = "get" /\ num_requests[p] = 0)
         => /\ IsCanonical(missing'[p])
            /\ IntBase16(missing'[p]) =
                 IF prefixes = {} THEN 0 ELSE Greatest(StoredValues) + 1]_vars

\* a restarted process is about to fetch the address its killed predecessor
\* was working on
C3_Witness ==
    /\ pc[1] = "get"
    /\ lost[1] # None
    /\ missing[1] = lost[1]
    /\ prefixes # {}

\* the errors of a cycle that come from the transport or from the parser
FetchFailures == {"transport", "parse"}

\* C4: when a call ends with a transport or parse error the tables are what
\* they were when the call began, and the next call of the same Updatinator
\* targets the same address.
C4_FailureLeavesStore ==
    [][\A p \in Procs :
         /\ (pc'[p] = "done" /\ result'[p].kind \in FetchFailures)
            => /\ prefixes' = snap'[p].prefixes
               /\ passwords' = snap'[p].passwords
         /\ (IsFindMissing(p) /\ result[p].kind \in FetchFailures)
            => /\ pc'[p] = "get"
               /\ missing'[p] = missing[p]]_vars

\* the call after a parse error, on a store that is not empty
C4_Witness ==
    /\ pc[1] = "get"
    /\ result[1].kind = "parse"
    /\ prefixes # {}

\* C5: find_missing is 00000 on an empty table; otherwise it is None exactly
\* when fffff is stored, and else the canonical prefix whose value is the
\* greatest stored value plus one, whatever the order of insertion.
C5_FindMissing ==
    LET m == find_missing(prefixes)
    IN  IF prefixes = {} THEN m = <<"0","0","0","0","0">>
        ELSE /\ m = None <=> <<"f","f","f","f","f">> \in { r.prefix : r \in prefixes }
             /\ m # None => /\ IsCanonical(m)
                            /\ IntBase16(m) = Greatest(StoredValues) + 1

\* the rows were inserted out of numeric order and a prefix is still missing
C5_Witness ==
    /\ \E a, b \in prefixes : a.id < b.id /\ IntBase16(a.prefix) > IntBase16(b.prefix)
    /\ find_missing(prefixes) # None

\* C6: when fffff is stored, the find_missing step of create_new ends the call
\* with the exhaustion error, no request is counted or sent, no row changes.
C6_Exhausted ==
    [][\A p \in Procs :
         (IsFindMissing(p) /\ \E r \in prefixes : r.prefix = <<"f","f","f","f","f">>)
         => /\ pc'[p] = "done"
            /\ result'[p] = [kind |-> "exhausted", detail |-> "No missing prefixes found"]
            /\ UNCHANGED <<prefixes, passwords, txn, num_requests>>]_vars

\* create_new has raised the exhaustion error
C6_Witness ==
    /\ pc[1] = "done"
    /\ result[1].kind = "exhausted"
    /\ num_requests[1] = 0

\* positions at which run has ended
Ended == {"returned", "raised", "exited"}

\* C7: a run whose create_new signalled exhaustion ends by returning 0 after
\* printing the summary.
C7_ExhaustionIsSuccess ==
    \A p \in Procs :
      (rpc[p] \in Ended /\ result[p].kind = "exhausted")
      => (rpc[p] = "returned" /\ summary[p].printed)

\* C8: a run whose cycle raised a fatal error has printed the summary when it
\* has ended.
C8_FatalStillSummarises ==
    \A p \in Procs :
      (rpc[p] \in Ended /\ result[p].kind \in {"transport", "parse", "integrity"})
      => summary[p].printed

\* C9: a run that received a signal has, when it has ended, closed the session
\* and printed the summary.
C9_SignalStopsCleanly ==
    \A p \in Procs :
      (rpc[p] \in Ended /\ signalled[p]) => (closed[p] /\ summary[p].printed)

\* C10: a pending request never waits longer than the configured timeout.
C10_BoundedWait == \A p \in Procs : pc[p] = "wait" => elapsed[p] <= timeout

\* the lines of a body: its pieces between line feeds, without the carriage
\* return that ends them
BodyLines(string) ==
    LET pieces == SplitOn(string, "\n")
    IN  [ n \in 1..Len(pieces) |->
            IF pieces[n] # <<>> /\ pieces[n][Len(pieces[n])] = "\r"
            THEN SubSeq(pieces[n], 1, Len(pieces[n]) - 1) ELSE pieces[n] ]

\* the count field of a line: what follows its first colon
CountField(line) == SplitOn(line, ":")[2]

\* a non-empty line with no colon, or with a count that is no integer
IsMalformed(line) ==
    /\ line # <<>>
    /\ \/ ":" \notin Range(line)
       \/ ~PyInt(CountField(line)).ok

\* a line of the form SUFFIX:COUNT, without whitespace, COUNT an integer
IsWellFormed(line) ==
    /\ Len(SplitOn(line, ":")) = 2
    /\ Range(line) \cap Whitespace = {}
    /\ PyInt(CountField(line)).ok

\* line n is the first malformed line of the body and only blank or
\* well-formed lines come before it
IsFirstMalformed(string, n) ==
    /\ n \in 1..Len(BodyLines(string))
    /\ IsMalformed(BodyLines(string)[n])
    /\ \A m \in 1..(n - 1) :
         BodyLines(string)[m] = <<>> \/ IsWellFormed(BodyLines(string)[m])

\* the error detail carries the line or its count field
IdentifiesContent(detail, line) ==
    /\ "literal" \in DOMAIN detail
    /\ \/ detail.literal = line
       \/ ":" \in Range(line) /\ detail.literal = CountField(line)

\* C11: parsing a body whose first malformed line is line n fails, returns no
\* data, and the error names n, counted over the lines of the body from 1,
\* and the malformed content.
C11_MalformedLineReported ==
    ret.fn = "_extract" =>
      \A n \in 1..Len(BodyLines(arg.string)) :
        IsFirstMalformed(arg.string, n)
        => /\ ~ret.value.ok
           /\ "data" \notin DOMAIN ret.value
           /\ ret.value.line = n
           /\ IdentifiesContent(ret.value.detail, BodyLines(arg.string)[n])

\* the parts of a line are exactly two and the second is a string of decimal
\* digits: a base-10 integer that is not negative
IsRecordLine(line) ==
    /\ Len(SplitOn(line, ":")) = 2
    /\ CountField(line) # <<>>
    /\ Range(CountField(line)) \subseteq Range(Digits)

\* C12: a call of create_new whose body has a line that is no record line
\* ends with the parse error, so the records the parser returned and the rows
\* of table passwords all have a count that is not negative.
C12_CountsNotNegative ==
    /\ \A p \in Procs :
         /\ \A i \in 1..Len(hashes[p]) : hashes[p][i].count >= 0
         /\ (pc[p] = "flush_prefix"
               => \A line \in Range(SplitWhitespace(body[p])) : IsRecordLine(line))
    /\ \A x \in passwords : x.count >= 0

\* in `table`, the records of prefix row r are exactly `data`, in that order
BucketIn(table, r, data) ==
    LET rows == { x \in table : x.prefix_id = r.id }
    IN  /\ Cardinality(rows) = Len(data)
        /\ \A i \in 1..Len(data) :
             \E x \in rows : /\ x.sha1 = data[i].sha1
                             /\ x.count = data[i].count
                             /\ Cardinality({ y \in rows : y.id < x.id }) = i - 1

\* the step of process p that is the COMMIT ending a successful create_new
IsCommit(p) == pc[p] = "commit" /\ pc'[p] = "done"

\* C13: a create_new call that succeeds has added, to the tables as they were
\* when it began, one prefix row, for the address find_missing gave on those
\* tables, and one password row per record parsed from the body it fetched;
\* it returns that address and that number. On an empty store with the
\* four-line body that is ('00000', 4), one prefix row and four password rows.
C13_OneBucketPerCall ==
    [][\A p \in Procs :
         IsCommit(p) =>
           LET data  == Extract(PrefixInit(missing[p]).prefix, body[p]).data
               begun == snap[p]
           IN  /\ result'[p] = [kind |-> "ok", prefix |-> find_missing(begun.prefixes),
                                count |-> Len(data)]
               /\ \E r \in prefixes' :
                    /\ r \notin begun.prefixes
                    /\ prefixes' = begun.prefixes \cup {r}
                    /\ r.prefix = result'[p].prefix
                    /\ BucketIn(passwords', r, data)
               /\ begun.passwords \subseteq passwords'
               /\ Cardinality(passwords' \ begun.passwords) = Len(data)
               /\ (begun.prefixes = {} /\ body[p] = BodyFour)
                    => /\ result'[p].prefix = <<"0","0","0","0","0">>
                       /\ result'[p].count = 4
                       /\ Cardinality(prefixes') = 1
                       /\ Cardinality(passwords') = 4]_vars

\* the first call, on the empty store, returned ('00000', 4)
C13_Witness ==
    /\ pc[1] = "done"
    /\ result[1] = [kind |-> "ok", prefix |-> <<"0","0","0","0","0">>, count |-> 4]
    /\ Cardinality(prefixes) = 1
    /\ Cardinality(passwords) = 4

\* the step is a call of add with argument x
IsAdd(x) == arg' = [fn |-> "add", prefix |-> x] /\ <<arg, ret>> # <<arg, ret>>'

\* C14: no two rows of table prefixes have the same prefix when letter case
\* is ignored; adding a prefix whose case-folded form is stored raises
\* IntegrityError and leaves the table as it was.
C14_UniqueIgnoringCase ==
    [][/\ \A a, b \in prefixes' : Casefold(a.prefix) = Casefold(b.prefix) => a = b
       /\ \A x \in AddInputs :
            (IsAdd(x) /\ \E r \in prefixes : Casefold(r.prefix) = Casefold(x))
            => /\ ret'.raised = "IntegrityError"
               /\ prefixes' = prefixes]_vars

\* 'ABCDE' was refused after 'abcde' had been stored
C14_Witness ==
    /\ arg = [fn |-> "add", prefix |-> <<"A","B","C","D","E">>]
    /\ ret.fn = "add" /\ ret.raised = "IntegrityError"
    /\ { r.prefix : r \in prefixes } = { <<"a","b","c","d","e">> }

\* a text without one leading "0x" or "0X"
WithoutLead(s) ==
    IF Len(s) >= 2 /\ s[1] = "0" /\ s[2] \in {"x", "X"} THEN SubSeq(s, 3, Len(s)) ELSE s

\* five hexadecimal digits, in either letter case
IsFiveHex(s) ==
    Len(s) = 5 /\ \A i \in 1..5 : s[i] \in Range(HexLower) \cup Range(HexUpper)

\* a text with its letters A-F in lower case
Lowered(s) ==
    [ i \in 1..Len(s) |->
        IF s[i] \in Range(HexUpper) THEN HexLower[IndexOf(HexUpper, s[i])] ELSE s[i] ]

\* the integer that five lower-case hexadecimal digits write
HexValue(s) ==
    LET D(i) == IndexOf(HexLower, s[i]) - 1
    IN  D(1) * 65536 + D(2) * 4096 + D(3) * 256 + D(4) * 16 + D(5)

\* C15: Prefix(text) is accepted exactly when text, without one leading "0x"
\* in either case, is five hexadecimal digits, and the string an accepted
\* Prefix holds is five characters of 0-9a-f.
C15_AcceptedIsCanonical ==
    ret.fn = "Prefix" =>
      /\ ret.value.ok <=> IsFiveHex(WithoutLead(arg.text))
      /\ ret.value.ok => IsCanonical(PrefixStr(ret.value))

\* C16: for a text that is five hexadecimal digits in any letter case, with
\* or without a leading "0x" or "0X", str(Prefix(text)) is the five digits in
\* lower case; Prefix(a) == Prefix(b) exactly when these strings are equal.
C16_CanonicalString ==
    /\ (ret.fn = "Prefix" /\ IsFiveHex(WithoutLead(arg.text)))
         => /\ ret.value.ok
            /\ PrefixStr(ret.value) = Lowered(WithoutLead(arg.text))
    /\ ret.fn = "__eq__"
         => /\ ret.first = Lowered(WithoutLead(arg.first))
            /\ ret.second = Lowered(WithoutLead(arg.second))
            /\ ret.value <=> (Lowered(WithoutLead(arg.first))
                                = Lowered(WithoutLead(arg.second)))

\* Prefix('0XF0F0F') was built and holds 'f0f0f'
C16_Witness ==
    /\ arg = [fn |-> "Prefix", text |-> <<"0","X","F","0","F","0","F">>]
    /\ ret.fn = "Prefix" /\ ret.value.ok
    /\ PrefixStr(ret.value) = <<"f","0","f","0","f">>

\* C17: from_integer(v) for 0 <= v <= 0xFFFFF gives a Prefix whose int() is v
\* and whose str() is five lower-case hexadecimal digits that write v; for
\* v < 0 and for v > 0xFFFFF it raises the out-of-range ValueError.
C17_FromIntegerRoundTrip ==
    ret.fn = "from_integer" =>
      IF 0 <= arg.value /\ arg.value <= 16^5 - 1
        THEN /\ ret.value.ok
             /\ ret.int = arg.value
             /\ IsCanonical(ret.str)
             /\ HexValue(ret.str) = arg.value
        ELSE /\ ~ret.value.ok
             /\ ret.value.error =
                  IF arg.value < 0 THEN "value must be a positive integer"
                  ELSE "value cannot be greater than MAX_VALUE"

\* from_integer(4097) was called and gave '01001'
C17_Witness ==
    /\ arg = [fn |-> "from_integer", value |-> 4097]
    /\ ret.fn = "from_integer" /\ ret.value.ok
    /\ ret.str = <<"0","1","0","0","1">>
    /\ ret.int = 4097

\* C18: percentage_complete is 0 on an empty table and otherwise
\* (greatest stored value + 1) / 2^20 * 100, whatever the number of rows:
\* 100 / 2^20 when only 00000 is stored, 100 when fffff is stored.
C18_PercentageFromLargest ==
    LET pct    == percentage_complete(prefixes)
        stored == { r.prefix : r \in prefixes }
    IN  /\ pct.den = 2^20
        /\ prefixes = {} => pct.num = 0
        /\ prefixes # {} => pct.num = (Greatest(StoredValues) + 1) * 100
        /\ stored = {<<"0","0","0","0","0">>} => pct.num = 100
        /\ <<"f","f","f","f","f">> \in stored => pct.num = 100 * pct.den

\* fffff is the only row: one row of 2^20, and 100 per cent
C18_Witness ==
    /\ { r.prefix : r \in prefixes } = {<<"f","f","f","f","f">>}
    /\ Cardinality(prefixes) = 1
    /\ percentage_complete(prefixes).num = 100 * 2^20

\* the step of process p that ends a create_new call with an error
IsFailure(p) == pc[p] # "done" /\ pc'[p] = "done" /\ result'[p].kind # "ok"

\* C19: over the calls of one Updatinator, percentage_complete never
\* decreases; a call that succeeds leaves it 100 / 2^20 above what it was when
\* the call began, a call that fails leaves it what it was.
C19_ProgressMonotonic ==
    [][LET before == percentage_complete(prefixes)
           after  == percentage_complete(prefixes')
       IN  /\ after.den = before.den
           /\ after.num >= before.num
           /\ \A p \in Procs :
                LET begun == percentage_complete(snap[p].prefixes)
                IN  /\ IsCommit(p) => (after.den = 2^20 /\ after.num = begun.num + 100)
                    /\ IsFailure(p) => after = begun]_vars

\* two calls succeeded and one failed: 200 / 2^20 per cent
C19_Witness ==
    /\ pc[1] = "done"
    /\ result[1].kind = "ok"
    /\ Len(created) = 2
    /\ num_requests[1] = 3
    /\ percentage_complete(prefixes).num = 200

\* the step of process p that is its INSERT INTO prefixes
IsInsert(p) == pc[p] = "flush_prefix" /\ pc'[p] # "flush_prefix"

\* C20: with two coordinators interleaving, in every state no address is
\* stored twice and none is missing below the greatest stored one; no address
\* is returned by two successful calls; an INSERT of an address that is
\* already stored ends the call with IntegrityError at its caller and leaves
\* the tables as they were.
C20_RaceKeepsInvariant ==
    [][/\ Cardinality({ r.prefix : r \in prefixes' }) = Cardinality(prefixes')
       /\ { IntBase16(r.prefix) : r \in prefixes' } = 0..(Cardinality(prefixes') - 1)
       /\ \A i, j \in 1..Len(created') : created'[i] = created'[j] => i = j
       /\ \A p \in Procs :
            (IsInsert(p) /\ missing[p] \in { r.prefix : r \in prefixes })
            => /\ pc'[p] = "done"
               /\ result'[p].kind = "integrity"
               /\ UNCHANGED <<prefixes, passwords>>]_vars

\* both coordinators selected 00001; the first committed it, the second was
\* refused
C20_Witness ==
    /\ missing[1] = <<"0","0","0","0","1">>
    /\ missing[2] = missing[1]
    /\ pc[1] = "done" /\ result[1].kind = "ok" /\ result[1].prefix = missing[1]
    /\ pc[2] = "done" /\ result[2].kind = "integrity"

\* the address is below the greatest stored value of `rows` and is not stored
IsGap(rows, prefix) ==
    /\ prefix \notin { r.prefix : r \in rows }
    /\ \E r \in rows : IntBase16(prefix) < IntBase16(r.prefix)

\* C21: on a table with gaps, find_missing never returns an address that is
\* below a stored one, a successful create_new adds only the address its
\* find_missing returned, which was no gap of the table the call began on,
\* and with fffff stored find_missing is None although 00000 is not stored.
C21_GapsNeverFilled ==
    [][\A p \in Procs :
         /\ (IsFindMissing(p) /\ pc'[p] = "get")
              => /\ ~IsGap(prefixes, missing'[p])
                 /\ \A r \in prefixes : IntBase16(r.prefix) < IntBase16(missing'[p])
         /\ IsCommit(p)
              => /\ ~IsGap(snap[p].prefixes, missing[p])
                 /\ { r.prefix : r \in prefixes' }
                      = { r.prefix : r \in snap[p].prefixes } \cup {missing[p]}
         /\ (IsFindMissing(p) /\ \E r \in prefixes : r.prefix = <<"f","f","f","f","f">>)
              => /\ result'[p].kind = "exhausted"
                 /\ find_missing(prefixes) = None]_vars

\* ffffe was stored by another writer, create_new added fffff, and the next
\* call reports exhaustion while 00000 is not stored
C21_Witness ==
    /\ pc[1] = "done" /\ result[1].kind = "exhausted"
    /\ created = << <<"f","f","f","f","f">> >>
    /\ IsGap(prefixes, <<"0","0","0","0","0">>)

\* C22: when the summary of a run on a new database has been printed, its
\* totals are the numbers of rows of the two tables.
C22_SummaryCountsCommitted ==
    \A p \in Solo :
      summary[p].printed
      => /\ summary[p].prefixes = Cardinality(prefixes)
         /\ summary[p].passwords = Cardinality(passwords)

\* the number of rows the table held when the run began: the id of its oldest
\* row
RowsAtStart == CHOOSE k \in { r.id : r \in prefixes } : \A r \in prefixes : k <= r.id

\* C23: from a table holding 00000 .. k-1, with every fetch and parse
\* succeeding, the run ends: create_new raises the exhaustion error after
\* exactly 2^20 - k successful cycles, and no cycle requests an address that
\* is stored.
C23_ResumeTerminates ==
    /\ <>(\A p \in Solo :
            /\ rpc[p] = "raised"
            /\ result[p].kind = "exhausted"
            /\ Len(created) = 2^20 - RowsAtStart
            /\ total_prefixes[p] = 2^20 - RowsAtStart)
    /\ [][\A p \in Solo :
            (pc[p] = "get" /\ pc'[p] = "wait")
            => /\ missing[p] \notin { r.prefix : r \in prefixes }
               /\ \A i \in 1..Len(created) : created[i] # missing[p]]_vars

\* the run began with three addresses missing and has ended
C23_Witness ==
    /\ rpc[1] = "raised"
    /\ result[1].kind = "exhausted"
    /\ Len(created) = 3
    /\ RowsAtStart = 2^20 - 3

\* C24: two stored canonical prefixes sort as strings exactly as their
\* integer values do; largest_prefix returns None exactly on the empty
\* table and otherwise the stored prefix of the greatest value.
C24_StringOrderIsNumeric ==
    /\ \A a, b \in prefixes :
         StrLess(a.prefix, b.prefix) <=> IntBase16(a.prefix) < IntBase16(b.prefix)
    /\ largest_prefix(prefixes) = None <=> prefixes = {}
    /\ prefixes # {} =>
         /\ \E r \in prefixes : r.prefix = largest_prefix(prefixes)
         /\ IntBase16(largest_prefix(prefixes)) = Greatest(StoredValues)

\* 0000a, 00009 and 00000 are stored, the largest was not added last, and a
\* digit was compared with a letter
C24_Witness ==
    /\ { r.prefix : r \in prefixes }
         = { <<"0","0","0","0","a">>, <<"0","0","0","0","9">>, <<"0","0","0","0","0">> }
    /\ \E r \in prefixes : r.prefix = <<"0","0","0","0","a">> /\ r.id < 3
    /\ largest_prefix(prefixes) = <<"0","0","0","0","a">>

\* no character of s is an upper-case letter
IsLowerCase(s) == \A i \in 1..Len(s) : s[i] \notin Range(UpperChars)

\* the suffixes the transport sent for the bucket, in the case it sent them
WireSuffixes(b) == { SplitOn(l, ":")[1] : l \in Range(SplitWhitespace(b)) }

\* the suffixes of every body the transport sends
AllWireSuffixes == UNION { WireSuffixes(b) : b \in Bodies \cup {BodyNegative} }

\* C25: every row of table passwords has a lower-case hash that begins with
\* the prefix of the row of table prefixes it points to, and ends with a
\* suffix the transport sent, case-folded.
C25_HashBeginsWithOwnPrefix ==
    \A w \in passwords :
        /\ IsLowerCase(w.sha1)
        /\ \E r \in prefixes :
             /\ r.id = w.prefix_id
             /\ Len(w.sha1) >= 5
             /\ SubSeq(w.sha1, 1, 5) = r.prefix
             /\ \E s \in AllWireSuffixes : w.sha1 = r.prefix \o Casefold(s)

\* two buckets are stored, each with passwords, and a suffix arrived in
\* upper case
C25_Witness ==
    /\ \E w \in passwords : w.prefix_id = 1
    /\ \E w \in passwords : w.prefix_id = 2
    /\ \E w \in passwords : \E s \in AllWireSuffixes :
         ~IsLowerCase(s) /\ w.sha1 = SubSeq(w.sha1, 1, 5) \o Casefold(s)

\* forty hexadecimal digits
IsSha1Hex(s) == Len(s) = 40 /\ \A i \in 1..Len(s) : s[i] \in Range(HexLower) \cup Range(HexUpper)

\* C26: every hash _extract returns is exactly 40 hexadecimal characters; a
\* line whose suffix is not 35 hexadecimal characters is not made a record.
C26_HashIsFortyHex ==
    (ret.fn = "_extract" /\ ret.value.ok)
    => \A i \in 1..Len(ret.value.data) : IsSha1Hex(ret.value.data[i].sha1)

\* the value percentage_complete takes for the number of rows
CheapCount(rows) ==
    IF largest_prefix(rows) = None THEN 0 ELSE IntBase16(largest_prefix(rows)) + 1

\* C27: on a table built by create_new calls from the empty table, the value
\* of largest_prefix plus one equals count_rows, both 0 on the empty table,
\* and percentage_complete is count_rows * 100 / 2^20.
C27_CheapCountIsRowCount ==
    /\ CheapCount(prefixes) = count_rows(prefixes)
    /\ prefixes = {} => count_rows(prefixes) = 0
    /\ percentage_complete(prefixes) = [num |-> count_rows(prefixes) * 100, den |-> 2^20]

\* three create_new calls have committed
C27_Witness ==
    /\ count_rows(prefixes) = 3
    /\ Len(created) = 3
    /\ largest_prefix(prefixes) = <<"0","0","0","0","2">>

\* the non-empty lines of a body, in the order of the body
RecordLines(string) == SelectSeq(BodyLines(string), LAMBDA l : l # <<>>)

\* the pair a well-formed line stands for
PairOf(line) ==
    [sha1 |-> Lowered(PREFIX \o SplitOn(line, ":")[1]),
     count |-> PyInt(CountField(line)).value]

\* one direct call of _extract returns
IsExtract == arg.fn = "_extract" /\ ret = NoCall /\ ret' # NoCall

\* C28: for a body whose non-empty lines are all well formed, _extract
\* returns one (hash, count) pair per non-empty line, in the order of the
\* lines, whether the lines end in CRLF or LF and wherever blank lines
\* stand; the call changes no counter and no table.
C28_OnePairPerLine ==
    [][(IsExtract /\ \A n \in 1..Len(RecordLines(arg.string)) :
                       IsWellFormed(RecordLines(arg.string)[n]))
       => /\ ret'.value.ok
          /\ Len(ret'.value.data) = Len(RecordLines(arg.string))
          /\ \A n \in 1..Len(RecordLines(arg.string)) :
               ret'.value.data[n] = PairOf(RecordLines(arg.string)[n])
          /\ UNCHANGED <<num_requests, bytes_received, prefixes, passwords, txn,
                         total_prefixes, total_passwords>>]_vars

\* the four lines of the CRLF body came back as four pairs in their order
C28_Witness ==
    /\ ret.fn = "_extract"
    /\ ret.value.ok
    /\ arg.string = BodyFour
    /\ Len(ret.value.data) = 4
    /\ ret.value.data[1].sha1 = Lowered(PREFIX \o Suffix1)
    /\ ret.value.data[4].sha1 = Lowered(PREFIX \o Suffix4)

\* C29: a fetch_range call sends one request and adds one to num_requests,
\* whether the request then succeeds or fails, and is not sent again;
\* bytes_received grows by the length of the body when the request succeeds
\* and changes at no other step; the address requested is find_missing of the
\* table, whatever the counters hold.
C29_OneRequestPerFetch ==
    [][\A p \in Solo :
         /\ (pc[p] = "get" /\ pc'[p] # "get")
              => /\ pc'[p] = "wait"
                 /\ num_requests'[p] = num_requests[p] + 1
                 /\ bytes_received'[p] = bytes_received[p]
         /\ num_requests'[p] # num_requests[p] => pc[p] = "get"
         /\ pc'[p] = "get" => pc[p] \in {"find", "get"}
         /\ (pc[p] = "wait" /\ pc'[p] # "wait")
              => /\ num_requests'[p] = num_requests[p]
                 /\ \/ /\ pc'[p] = "extract"
                       /\ bytes_received'[p] = bytes_received[p] + Len(body'[p])
                    \/ /\ pc'[p] = "done"
                       /\ result'[p].kind = "transport"
                       /\ bytes_received'[p] = bytes_received[p]
         /\ bytes_received'[p] # bytes_received[p] => pc[p] = "wait"
         /\ (pc[p] = "find" /\ pc'[p] = "get") => missing'[p] = find_missing(prefixes)
         /\ (pc[p] = "find" /\ pc'[p] = "done")
              => find_missing(prefixes) = None /\ result'[p].kind = "exhausted"]_vars

\* two calls have fetched: one body of four lines was received, the other
\* request failed
C29_Witness ==
    /\ num_requests[1] = 2
    /\ bytes_received[1] = Len(BodyFour)
    /\ result[1].kind = "transport"
    /\ pc[1] = "done"

\* C30: adding a prefix that is not exactly 5 characters long raises
\* ValueError and adds no row, and ValueError is raised for no other prefix;
\* a prefix that is added is stored in lower case, and every stored prefix
\* is 5 lower-case characters.
C30_FiveCharactersLowerCase ==
    [][/\ \A x \in AddInputs :
            IsAdd(x) =>
              /\ Len(x) # 5 => (ret'.raised = "ValueError" /\ prefixes' = prefixes)
              /\ ret'.raised = "ValueError" => Len(x) # 5
              /\ ret'.raised = "nothing" =>
                   \E r \in prefixes' :
                     /\ prefixes' = prefixes \cup {r}
                     /\ r \notin prefixes
                     /\ IsLowerCase(r.prefix)
                     /\ Casefold(x) = r.prefix
       /\ \A r \in prefixes' : Len(r.prefix) = 5 /\ IsLowerCase(r.prefix)]_vars

\* 'abcdef' was refused with ValueError while 'abcde' is stored
C30_Witness ==
    /\ arg = [fn |-> "add", prefix |-> <<"a","b","c","d","e","f">>]
    /\ ret.fn = "add" /\ ret.raised = "ValueError"
    /\ { r.prefix : r \in prefixes } = { <<"a","b","c","d","e">> }

\* text is a count, written in decimal digits, a space and a name
Reports(text, count, name) ==
    \E k \in 1..Len(text) :
        /\ text[k] = " "
        /\ SubSeq(text, k + 1, Len(text)) = name
        /\ LET digits == SelectSeq(SubSeq(text, 1, k - 1), LAMBDA c : c # ",")
           IN  /\ digits # <<>>
               /\ Range(digits) \subseteq Range(Digits)
               /\ Len(digits) = 1 \/ digits[1] # "0"
               /\ DecimalValue(digits) = count

\* the units of which s seconds hold at least two
UnitsHeldTwice(s) == { i \in 1..Len(DURATIONS) : s \div DURATIONS[i].length >= 2 }

\* the longest of a non-empty set of units
LongestUnit(units) ==
    CHOOSE i \in units : \A j \in units : DURATIONS[j].length <= DURATIONS[i].length

\* duration of a non-negative int: the count of the longest unit held at
\* least twice and its plural name, '1 second' for 1, '0 seconds' for 0
DurationOfIntegers ==
    (ret.fn = "duration" /\ arg.seconds.type = "int" /\ arg.seconds.value >= 0)
    => LET s == arg.seconds.value
       IN  /\ ret.value.raised = "nothing"
           /\ UnitsHeldTwice(s) # {} =>
                LET u == DURATIONS[LongestUnit(UnitsHeldTwice(s))]
                IN  Reports(ret.value.text, s \div u.length, u.key \o <<"s">>)
           /\ s = 1 => ret.value.text = <<"1"," ","s","e","c","o","n","d">>
           /\ s = 0 => ret.value.text = <<"0"," ","s","e","c","o","n","d","s">>

\* a number below zero: an int, or a float or Decimal that is finite
IsNegativeNumber(seconds) ==
    \/ seconds.type = "int" /\ seconds.value < 0
    \/ /\ seconds.type \in {"float", "Decimal"}
       /\ "special" \notin DOMAIN seconds
       /\ seconds.num < 0

\* no number: None, or a text without a digit
IsNotNumber(seconds) ==
    \/ seconds.type = "NoneType"
    \/ seconds.type = "str" /\ Range(seconds.text) \cap Range(Digits) = {}

\* duration of a negative number, or of what is no number, raises ValueError
DurationRejects ==
    (ret.fn = "duration" /\ (IsNegativeNumber(arg.seconds) \/ IsNotNumber(arg.seconds)))
    => ret.value.raised = "ValueError"

\* C31: duration(s) of a non-negative integer s reports the count of the
\* largest unit among year, month, week, day, hour, minute, second that s
\* holds at least twice, as floor(s / unit length) and the plural name,
\* '1 second' for 1 and '0 seconds' for 0; negative or non-numeric input
\* raises ValueError.
C31_DurationReport == DurationOfIntegers /\ DurationRejects

=============================================================================
